---- MODULE Spec2Model ----
(***************************************************************************)
(* A model of QDBusAbstractInterface (src/dbus/qdbusabstractinterface.cpp):*)
(* one proxy object, the QDBusConnection it was built on, and the callers  *)
(* (on the thread that owns the proxy or on another thread) that invoke    *)
(* its operations.  The connection is an external collaborator: what it    *)
(* answers (replies, the owner of a name, registration results) is chosen  *)
(* nondeterministically from small sets.  The connection handle is assumed *)
(* to carry a private object (connectionPrivate() is not null).            *)
(* Spec runs the calls and the property accessor on the constructed proxy; *)
(* RelaySpec runs the signal relay (listeners attaching and detaching, the *)
(* deferred disconnect events), which shares no variable it writes with    *)
(* the calls; ReentrantSpec runs a synchronous call whose wait for the     *)
(* reply lets other operations on the proxy run before it returns.         *)
(***************************************************************************)
EXTENDS Integers, Sequences, FiniteSets, TLC

VARIABLES
    pc,            \* "new": not constructed; "constructed": the private
                   \* object is built; "ready": initOwnerTracking() has run
    service, path, interface, isDynamic,   \* constructor arguments / identity
    connMode,      \* QDBusConnectionPrivate::mode: "PeerMode" or "ClientMode"
    connected,     \* QDBusConnection::isConnected()
    watchable,     \* what shouldWatchService(service) answered (FALSE until asked)
    lastError,     \* d->lastError
    timeout,       \* d->timeout
    interactiveAuthorizationAllowed,
    isValid,       \* d->isValid, the construction-time validity flag
    currentOwner,  \* d->currentOwner
    watcher,       \* TRUE once the QDBusServiceWatcher is connected to the slot
    ownerQueried,  \* TRUE once getNameOwner() has been asked
    listeners,     \* the local connections to the proxy's signals: <<receiver, signal>>
    relays,        \* the signals with a relay registered on the connection
    events,        \* the DisconnectRelayEvents posted and not yet processed
    last,          \* what the most recent operation did (observation record)
    outer          \* the synchronous call that is waiting for its reply inside
                   \* d->connection.call(), if any

vars == <<pc, service, path, interface, isDynamic, connMode, connected, watchable,
          lastError, timeout, interactiveAuthorizationAllowed, isValid,
          currentOwner, watcher, ownerQueried, listeners, relays, events, last, outer>>

\* The state of the signal relay.
relayVars == <<listeners, relays, events>>

\* The state of the proxy object itself.
proxyVars == <<pc, service, path, interface, isDynamic, connMode, connected, watchable,
               lastError, timeout, interactiveAuthorizationAllowed, isValid,
               currentOwner, watcher, ownerQueried>>

identity == <<service, path, interface>>

(***************************************************************************)
(* Errors and values                                                       *)
(***************************************************************************)
\* A QDBusError: its kind and the descriptors its message carries, each a
\* pair <<what it describes, text>>.
Err(type, msg) == [type |-> type, msg |-> msg]

\* QDBusError(): the invalid ("no error") error.
NoError == Err("NoError", <<>>)

\* QDBusError(QDBusError::Disconnected, QDBusUtil::disconnectedErrorMessage())
DisconnectedError == Err("Disconnected", <<>>)

\* connectionPrivate()->lastError after a failed getNameOwner()
ConnectionLastError == Err("NameHasNoOwner", <<>>)

\* Errors a remote peer (or the connection) may answer a call with.
RemoteErrors == { Err("Failed", <<<<"remote", "failed">>>>),
                  Err("UnknownMethod", <<<<"remote", "no such method">>>>) }

\* A QVariant: its meta type, its D-Bus signature, its data; for a
\* QDBusVariant, itype/isig describe the value it wraps.
Value(type, sig, data) == [type |-> type, sig |-> sig, data |-> data, itype |-> "", isig |-> ""]

\* QVariant(): the invalid variant.
InvalidVariant == Value("Invalid", "", "")

\* QVariant(QString)
Str(s) == Value("QString", "s", s)

\* QVariant::fromValue(QDBusVariant(v))
DBusVariant(v) == [type |-> "QDBusVariant", sig |-> "v", data |-> v.data, itype |-> v.type, isig |-> v.sig]

\* qvariant_cast<QDBusVariant>(a).variant()
VariantOf(a) == Value(a.itype, a.isig, a.data)

(***************************************************************************)
(* Input sets                                                              *)
(***************************************************************************)
GoodName == "org.example.Foo"
Services == {"", GoodName, "bad..name"}
Paths == {"", "/obj", "bad path"}
Interfaces == {"", GoodName, "bad..iface"}
Owners == {"", ":1.7", ":1.8"}
Threads == {"owner", "other"}
DefaultTimeout == -1
Timeouts == {DefaultTimeout, 500}

\* Method strings, as character sequences: bare, or with a signature
\* annotation after a '.' separator.
Methods == { <<"P">>, <<"E", ".", "s">>, <<"X">>, <<"O">> }
ArgLists == { <<>>, <<Str("hi")>> }
CallModes == {"NoBlock", "Block", "BlockWithGui", "AutoDetect"}

\* The (mode, method, arguments) of the calls made: every mode with every
\* method, and both argument lists.
CallInputs ==
    { <<mode, m, <<>>>> : mode \in CallModes, m \in Methods }
        \cup { <<"Block", <<"X">>, a>> : a \in ArgLists }
MethodInputs ==
    { <<m, <<>>>> : m \in Methods } \cup { <<<<"E", ".", "s">>, a>> : a \in ArgLists }

\* The methods declared on the derived proxy type (those after
\* staticMetaObject.methodCount()), in declaration order, with their tags;
\* O is overloaded, and only its second overload is tagged.
DeclaredMethods == << [name |-> <<"P">>, tag |-> <<"Q_SCRIPTABLE", "Q_NOREPLY">>],
                      [name |-> <<"E">>, tag |-> <<>>],
                      [name |-> <<"O">>, tag |-> <<>>],
                      [name |-> <<"O">>, tag |-> <<"Q_NOREPLY">>] >>

(***************************************************************************)
(* Messages                                                                *)
(***************************************************************************)
\* A QDBusMessage received from (or synthesised for) a call.
Message(type, err, args) == [type |-> type, err |-> err, args |-> args]

\* QDBusMessage::createError(const QDBusError &)
createError(err) == Message("ErrorMessage", err, <<>>)

\* QDBusError(const QDBusMessage &): the error of an error message, no
\* error for every other message type.
QDBusErrorOf(msg) == IF msg.type = "ErrorMessage" THEN msg.err ELSE NoError

RECURSIVE SignatureOf(_)
\* QDBusMessage::signature(): the concatenated signatures of the arguments.
SignatureOf(args) ==
    IF args = <<>> THEN "" ELSE Head(args).sig \o SignatureOf(Tail(args))

\* No message: the connection was not invoked.
NoMessage == <<>>

\* A message that always goes out with the default timeout.
MethodCall_DefaultTimeout(via, iface, member, args, mode, auth) ==
    << [via |-> via, service |-> service, path |-> path, interface |-> iface,
        member |-> member, args |-> args, mode |-> mode, timeout |-> DefaultTimeout,
        interactiveAuth |-> auth] >>

\* QDBusMessage::createMethodCall(service, path, interface, member) with its
\* arguments, as handed to a primitive of the connection.
MethodCall(via, iface, member, args, mode, auth) ==
    << [via |-> via, service |-> service, path |-> path, interface |-> iface,
        member |-> member, args |-> args, mode |-> mode, timeout |-> timeout,
        interactiveAuth |-> auth] >>

(***************************************************************************)
(* QDBusUtil name checks (the error each reports, NoError when it passes)  *)
(***************************************************************************)
isValidBusName(s) == s = GoodName
isValidObjectPath(s) == s = "/obj"
isValidInterfaceName(s) == s = GoodName

checkName(what, name, emptyAllowed, ok) ==
    IF name = ""
    THEN IF emptyAllowed THEN NoError ELSE Err("EmptyNameNotAllowed", <<<<"kind", what>>>>)
    ELSE IF ok THEN NoError ELSE Err("MalformedName", <<<<"kind", what>>, <<"name", name>>>>)

checkBusName(name, emptyAllowed) == checkName("service", name, emptyAllowed, isValidBusName(name))
checkObjectPath(p, emptyAllowed) == checkName("path", p, emptyAllowed, isValidObjectPath(p))
checkInterfaceName(i, emptyAllowed) == checkName("interface", i, emptyAllowed, isValidInterfaceName(i))

(***************************************************************************)
(* Construction                                                            *)
(***************************************************************************)
\* A validation that looks at the path before the service.
checkIfValid_PathFirst(serv, p, iface, dyn, isPeer) ==
    IF checkObjectPath(p, ~dyn) # NoError
    THEN checkObjectPath(p, ~dyn)
    ELSE IF checkBusName(serv, ~(dyn /\ ~isPeer)) # NoError
    THEN checkBusName(serv, ~(dyn /\ ~isPeer))
    ELSE checkInterfaceName(iface, TRUE)

\* checkIfValid(): the error of the first rule violated, in the order
\* service, path, interface.
checkIfValid(serv, p, iface, dyn, isPeer) ==
    IF checkBusName(serv, ~(dyn /\ ~isPeer)) # NoError
    THEN checkBusName(serv, ~(dyn /\ ~isPeer))
    ELSE IF checkObjectPath(p, ~dyn) # NoError
    THEN checkObjectPath(p, ~dyn)
    ELSE IF checkInterfaceName(iface, TRUE) # NoError
    THEN checkInterfaceName(iface, TRUE)
    ELSE NoError

isPeerConnection == connMode = "PeerMode"

\* No synchronous call is inside d->connection.call().
NoOuter ==
    [state |-> "none", thread |-> "owner", mode |-> "Block", in |-> <<>>, sent |-> <<>>,
     before |-> NoError]

\* The observation record of an operation that talks to nobody.
Observed(op, thread, before) ==
    [op |-> op, thread |-> thread, before |-> before, sent |-> NoMessage,
     reply |-> Message("None", NoError, <<>>), ret |-> Message("None", NoError, <<>>),
     ok |-> FALSE, in |-> <<>>, out |-> InvalidVariant]

Init ==
    /\ pc = "new"
    /\ service \in Services
    /\ path \in Paths
    /\ isDynamic \in BOOLEAN
    \* Q_ASSERT_X(!interface.isEmpty()) for non-dynamic interfaces
    /\ interface \in (IF isDynamic THEN Interfaces ELSE Interfaces \ {""})
    /\ connMode \in {"PeerMode", "ClientMode"}
    /\ connected \in BOOLEAN
    /\ watchable = FALSE
    /\ lastError = NoError
    /\ timeout = DefaultTimeout
    /\ interactiveAuthorizationAllowed = FALSE
    /\ isValid = FALSE
    /\ currentOwner = ""
    /\ watcher = FALSE
    /\ ownerQueried = FALSE
    /\ listeners = {}
    /\ relays = {}
    /\ events = <<>>
    /\ last = [op |-> "none", thread |-> "owner", before |-> NoError, sent |-> <<>>,
               reply |-> [type |-> "None", err |-> NoError, args |-> <<>>],
               ret |-> [type |-> "None", err |-> NoError, args |-> <<>>],
               ok |-> FALSE, in |-> <<>>, out |-> InvalidVariant]
    /\ outer = NoOuter

\* A flag that is also cleared by a connection that is not connected.
validityFlag_NeedsConnection(valid) == valid = NoError /\ connected

\* "isValid(!lastError.isValid())": the validity flag, from the result of
\* checkIfValid().
validityFlag(valid) == valid = NoError

\* lastError at the end of the constructor of the private object.
ConstructorLastError(valid) ==
    IF validityFlag(valid) /\ ~connected THEN DisconnectedError ELSE valid

\* QDBusAbstractInterfacePrivate::QDBusAbstractInterfacePrivate

Constructor ==
    /\ pc = "new"
    /\ pc' = "constructed"
    /\ LET valid == checkIfValid(service, path, interface, isDynamic, isPeerConnection)
       IN /\ isValid' = validityFlag(valid)
          /\ lastError' = ConstructorLastError(valid)
    /\ timeout' = DefaultTimeout
    /\ interactiveAuthorizationAllowed' = FALSE
    /\ last' = Observed("constructor", "owner", lastError)
    /\ UNCHANGED <<outer, relayVars, service, path, interface, isDynamic, connMode, connected, watchable,
                   currentOwner, watcher, ownerQueried>>

\* A guard that starts owner tracking on a connection that is not connected.
tracksOwner_IgnoresConnection(shouldWatch) == isValid /\ shouldWatch

\* A guard that does not ask whether the service is watchable.
tracksOwner_IgnoresWatchable(shouldWatch) == isValid /\ connected

\* The guard of initOwnerTracking(): TRUE when owner tracking starts.
\* shouldWatch is the answer of shouldWatchService(service).
tracksOwner(shouldWatch) == isValid /\ connected /\ shouldWatch

\* An owner query that always propagates the connection's error.
ownerQueryLastError_Always(owner, old) == ConnectionLastError

\* "if (currentOwner.isEmpty()) lastError = connectionPrivate()->lastError"
ownerQueryLastError(owner, old) == IF owner = "" THEN ConnectionLastError ELSE old

\* QDBusAbstractInterfacePrivate::initOwnerTracking, called by the
\* QDBusAbstractInterface constructors; owner is what getNameOwner() answers.
initOwnerTracking(shouldWatch, owner) ==
    /\ pc = "constructed"
    /\ pc' = "ready"
    /\ watchable' = (isValid /\ connected /\ shouldWatch)
    /\ IF tracksOwner(shouldWatch)
       THEN /\ watcher' = TRUE
            /\ ownerQueried' = TRUE
            /\ currentOwner' = owner
            /\ lastError' = ownerQueryLastError(owner, lastError)
       ELSE UNCHANGED <<watcher, ownerQueried, currentOwner, lastError>>
    /\ last' = [Observed("initOwnerTracking", "owner", lastError)
                   EXCEPT !.in = <<shouldWatch, owner>>]
    /\ UNCHANGED <<outer, relayVars, service, path, interface, isDynamic, connMode, connected,
                   timeout, interactiveAuthorizationAllowed, isValid>>

\* The caller takes the result of the operation that just ran; the proxy is
\* idle until the next operation.
Idle == Observed("none", "owner", NoError)

Return ==
    /\ pc = "ready"
    /\ last # Idle
    /\ last' = Idle
    /\ UNCHANGED <<outer, relayVars, pc, service, path, interface, isDynamic, connMode, connected, watchable,
                   lastError, timeout, interactiveAuthorizationAllowed, isValid,
                   currentOwner, watcher, ownerQueried>>

\* A slot that updates the cache only when oldOwner is the cached owner.
serviceOwnerChanged_IfOldMatches(oldOwner, newOwner) ==
    IF oldOwner = currentOwner THEN newOwner ELSE currentOwner

\* QDBusAbstractInterfacePrivate::_q_serviceOwnerChanged: the value the
\* cached owner takes.
serviceOwnerChanged(oldOwner, newOwner) == newOwner

\* The slot is connected to the watcher of d->service only, so name == service.
_q_serviceOwnerChanged(name, oldOwner, newOwner) ==
    /\ pc = "ready"
    /\ last = Idle
    /\ watcher
    /\ name = service
    /\ currentOwner' = serviceOwnerChanged(oldOwner, newOwner)
    /\ last' = [Observed("serviceOwnerChanged", "owner", lastError)
                   EXCEPT !.in = <<name, oldOwner, newOwner>>]
    /\ UNCHANGED <<outer, relayVars, pc, service, path, interface, isDynamic, connMode, connected, watchable,
                   lastError, timeout, interactiveAuthorizationAllowed, isValid,
                   watcher, ownerQueried>>

\* An isValid() that trusts the validity flag on every connection.
QDBusAbstractInterface_isValid_FlagOnly == isValid

\* QDBusAbstractInterface::isValid(): the externally observable validity.
QDBusAbstractInterface_isValid ==
    IF connMode = "PeerMode" THEN isValid ELSE currentOwner # ""

\* A caller asks isValid(); the answer is recorded.
isValidCall(thread) ==
    /\ pc = "ready"
    /\ last' = [Observed("isValid", thread, lastError) EXCEPT !.ok = QDBusAbstractInterface_isValid]
    /\ UNCHANGED <<outer, relayVars, pc, service, path, interface, isDynamic, connMode, connected, watchable,
                   lastError, timeout, interactiveAuthorizationAllowed, isValid,
                   currentOwner, watcher, ownerQueried>>

(***************************************************************************)
(* Replies the connection may hand back                                    *)
(***************************************************************************)
ErrorReplies == { Message("ErrorMessage", e, <<Str("remote")>>) : e \in RemoteErrors }

\* What QDBusConnection::call() returns for a fire-and-forget call.
InvalidReply == Message("InvalidMessage", NoError, <<InvalidVariant>>)

\* The most arguments a reply carries.
MaxReplyArgs == 2

\* n string arguments.
StrArgs(n) == [i \in 1..n |-> Str("x")]

CallReplyArgLists == { StrArgs(n) : n \in 0..MaxReplyArgs }
CallReplies ==
    ErrorReplies \cup {InvalidReply}
        \cup { Message("ReplyMessage", NoError, a) : a \in CallReplyArgLists }

\* What QDBusConnection::call() returns on a connection that is not
\* connected.
DisconnectedReply == createError(DisconnectedError)

\* The replies QDBusConnection::call() may return to a call placed with
\* mode: an error of its own when it is not connected, the invalid message
\* for a fire-and-forget call, else what the peer answers.
connectionReplies(mode, replies) ==
    IF ~connected THEN {DisconnectedReply}
    ELSE IF mode = "NoBlock" THEN {InvalidReply}
    ELSE replies \ {InvalidReply}

(***************************************************************************)
(* Call dispatcher                                                         *)
(***************************************************************************)
\* A recheck that refuses an empty service on a peer connection too.
canMakeCalls_AnyMode ==
    IF service = ""
    THEN checkBusName(service, FALSE)
    ELSE IF path = "" THEN checkObjectPath(path, FALSE) ELSE NoError

\* QDBusAbstractInterfacePrivate::canMakeCalls(): NoError when it returns
\* true, otherwise the error it stores in lastError.
canMakeCalls ==
    IF service = "" /\ connMode # "PeerMode"
    THEN checkBusName(service, FALSE)
    ELSE IF path = "" THEN checkObjectPath(path, FALSE) ELSE NoError

\* A guard that forgets to recheck the wildcard service and path.
callGuard_NoRecheck ==
    IF ~isValid THEN [ok |-> FALSE, err |-> lastError] ELSE [ok |-> TRUE, err |-> lastError]

\* A guard that also refuses a proxy whose service has no known owner.
callGuard_ChecksOwner ==
    IF ~isValid \/ (connMode # "PeerMode" /\ currentOwner = "")
    THEN [ok |-> FALSE, err |-> lastError]
    ELSE IF canMakeCalls # NoError THEN [ok |-> FALSE, err |-> canMakeCalls]
    ELSE [ok |-> TRUE, err |-> lastError]

\* A guard whose recheck reports the failure without storing its error.
callGuard_KeepsError ==
    IF ~isValid \/ canMakeCalls # NoError
    THEN [ok |-> FALSE, err |-> lastError] ELSE [ok |-> TRUE, err |-> lastError]

\* The guard "!d->isValid || !d->canMakeCalls()" of every operation: whether
\* the operation goes on, and lastError once the guard is evaluated.
callGuard ==
    IF ~isValid THEN [ok |-> FALSE, err |-> lastError]
    ELSE IF canMakeCalls # NoError THEN [ok |-> FALSE, err |-> canMakeCalls]
    ELSE [ok |-> TRUE, err |-> lastError]

\* method.indexOf(u'.') and m.truncate(pos)
bareMethod(method) ==
    LET dots == { i \in 1..Len(method) : method[i] = "." }
    IN IF dots = {} THEN method
       ELSE SubSeq(method, 1, (CHOOSE i \in dots : \A j \in dots : i <= j) - 1)

\* An AutoDetect that looks at every overload of the name.
resolveMode_AnyOverload(mode, m) ==
    IF mode # "AutoDetect" THEN mode
    ELSE IF \E i \in 1..Len(DeclaredMethods) :
               /\ DeclaredMethods[i].name = m
               /\ \E k \in 1..Len(DeclaredMethods[i].tag) : DeclaredMethods[i].tag[k] = "Q_NOREPLY"
         THEN "NoBlock" ELSE "Block"

\* The AutoDetect loop over the methods of the derived type: the first
\* method whose name matches decides.
resolveMode(mode, m) ==
    IF mode # "AutoDetect" THEN mode
    ELSE LET hits == { i \in 1..Len(DeclaredMethods) : DeclaredMethods[i].name = m }
         IN IF hits = {} THEN "Block"
            ELSE LET first == CHOOSE i \in hits : \A j \in hits : i <= j
                 IN IF \E k \in 1..Len(DeclaredMethods[first].tag) :
                           DeclaredMethods[first].tag[k] = "Q_NOREPLY"
                    THEN "NoBlock" ELSE "Block"

\* A store that keeps an error already there, whoever stored it.
callLastError_KeepsStoredError(thread, reply, old) ==
    IF thread = "owner" /\ old = NoError THEN QDBusErrorOf(reply) ELSE old

\* A store that records errors and never clears.
callLastError_OnlyErrors(thread, reply, old) ==
    IF thread = "owner" /\ reply.type = "ErrorMessage" THEN QDBusErrorOf(reply) ELSE old

\* "if (thread() == QThread::currentThread()) d->lastError = QDBusError(reply)"
callLastError(thread, reply, old) ==
    IF thread = "owner" THEN QDBusErrorOf(reply) ELSE old

\* A dispatcher that returns the reply as the connection handed it over.
ensureArgument_Never(reply) == reply

\* "if (reply.arguments().isEmpty()) reply << QVariant()"
ensureArgument(reply) ==
    IF reply.args = <<>> THEN [reply EXCEPT !.args = <<InvalidVariant>>] ELSE reply

\* QDBusAbstractInterface::callWithArgumentList
callWithArgumentList(thread, mode, method, args, reply) ==
    /\ pc = "ready"
    /\ last = Idle
    /\ IF ~callGuard.ok
       THEN /\ lastError' = callGuard.err
            /\ last' = [Observed("call", thread, lastError)
                           EXCEPT !.ret = createError(callGuard.err)]
       ELSE /\ lastError' = callLastError(thread, reply, lastError)
            /\ last' = [Observed("call", thread, lastError)
                           EXCEPT !.sent = MethodCall("call", interface, bareMethod(method), args,
                                                      resolveMode(mode, bareMethod(method)), FALSE),
                                  !.in = <<mode, method>>,
                                  !.reply = reply,
                                  !.ret = ensureArgument(reply),
                                  !.ok = TRUE]
    /\ UNCHANGED <<outer, relayVars, pc, service, path, interface, isDynamic, connMode, connected, watchable,
                   timeout, interactiveAuthorizationAllowed, isValid, currentOwner,
                   watcher, ownerQueried>>

\* QDBusAbstractInterface::callWithArgumentList up to the moment
\* d->connection.call() is entered: the guard, the method name, the mode and
\* the message.  A call the guard refuses returns at once.
callBegin(thread, mode, method, args) ==
    /\ pc = "ready"
    /\ last = Idle
    /\ outer = NoOuter
    /\ IF ~callGuard.ok
       THEN /\ lastError' = callGuard.err
            /\ last' = [Observed("call", thread, lastError)
                           EXCEPT !.ret = createError(callGuard.err)]
            /\ outer' = [NoOuter EXCEPT !.state = "returned", !.thread = thread,
                                        !.before = lastError]
       ELSE /\ outer' = [state |-> "waiting", thread |-> thread,
                         mode |-> resolveMode(mode, bareMethod(method)),
                         in |-> <<mode, method>>,
                         sent |-> MethodCall("call", interface, bareMethod(method), args,
                                             resolveMode(mode, bareMethod(method)), FALSE),
                         before |-> lastError]
            /\ UNCHANGED <<lastError, last>>
    /\ UNCHANGED <<relayVars, pc, service, path, interface, isDynamic, connMode, connected,
                   watchable, timeout, interactiveAuthorizationAllowed, isValid, currentOwner,
                   watcher, ownerQueried>>

\* QDBusAbstractInterface::callWithArgumentList from the moment
\* d->connection.call() returns the reply: lastError, the placeholder
\* argument, the return.
callEnd(reply) ==
    /\ pc = "ready"
    /\ last = Idle
    /\ outer.state = "waiting"
    /\ lastError' = callLastError(outer.thread, reply, lastError)
    /\ last' = [Observed("call", outer.thread, lastError)
                   EXCEPT !.sent = outer.sent,
                          !.in = outer.in,
                          !.reply = reply,
                          !.ret = ensureArgument(reply),
                          !.ok = TRUE]
    /\ outer' = [outer EXCEPT !.state = "returned"]
    /\ UNCHANGED <<relayVars, pc, service, path, interface, isDynamic, connMode, connected,
                   watchable, timeout, interactiveAuthorizationAllowed, isValid, currentOwner,
                   watcher, ownerQueried>>

\* The caller takes the result of the call that had waited.
returnOuter ==
    /\ outer.state = "returned"
    /\ outer' = NoOuter
    /\ last' = Idle
    /\ UNCHANGED <<relayVars, proxyVars>>

\* A dispatcher that never marks its messages.
withInteractiveAuthorization_Never == FALSE

\* "if (d->interactiveAuthorizationAllowed)
\*      msg.setInteractiveAuthorizationAllowed(true)": the flag of the message.
withInteractiveAuthorization == IF interactiveAuthorizationAllowed THEN TRUE ELSE FALSE

\* QDBusAbstractInterface::asyncCallWithArgumentList
asyncCallWithArgumentList(thread, method, args) ==
    /\ pc = "ready"
    /\ last = Idle
    /\ lastError' = callGuard.err
    /\ IF ~callGuard.ok
       THEN last' = [Observed("asyncCall", thread, lastError)
                        EXCEPT !.ret = createError(callGuard.err)]
       ELSE last' = [Observed("asyncCall", thread, lastError)
                        EXCEPT !.sent = MethodCall("asyncCall", interface, method, args, "Async",
                                                   withInteractiveAuthorization),
                               !.in = <<"Async", method>>,
                               !.ok = TRUE]
    /\ UNCHANGED <<outer, relayVars, pc, service, path, interface, isDynamic, connMode, connected, watchable,
                   timeout, interactiveAuthorizationAllowed, isValid, currentOwner,
                   watcher, ownerQueried>>

\* A callWithCallback that reports success whenever it reaches the connection.
callbackResult_AlwaysTrue(registered) == TRUE

\* "return d->connection.callWithCallback(...)"
callbackResult(registered) == registered

\* QDBusAbstractInterface::callWithCallback; registered is what the
\* connection's callWithCallback() returns.
callWithCallback(thread, method, args, registered) ==
    /\ pc = "ready"
    /\ last = Idle
    /\ IF ~callGuard.ok
       THEN /\ lastError' = callGuard.err
            /\ last' = Observed("callWithCallback", thread, lastError)
       ELSE /\ lastError' = NoError
            /\ last' = [Observed("callWithCallback", thread, lastError)
                           EXCEPT !.sent = MethodCall("callWithCallback", interface, method, args,
                                                      "Callback", FALSE),
                                  !.in = <<"Callback", method, registered>>,
                                  !.ok = callbackResult(registered)]
    /\ UNCHANGED <<outer, relayVars, pc, service, path, interface, isDynamic, connMode, connected, watchable,
                   timeout, interactiveAuthorizationAllowed, isValid, currentOwner,
                   watcher, ownerQueried>>

(***************************************************************************)
(* Property accessor                                                       *)
(***************************************************************************)
\* QDBusUtil::dbusInterfaceProperties()
dbusInterfaceProperties == "org.freedesktop.DBus.Properties"

\* The result of QDBusMetaType::typeToSignature() for a type that is not
\* registered with Qt D-Bus (a null pointer).
NullSignature == "<null>"

\* QDBusMetaType::typeToSignature(); QVariant itself is not a type Qt D-Bus
\* has a signature for.
typeToSignature(type) ==
    CASE type = "int" -> "i"
      [] type = "QString" -> "s"
      [] type = "QDBusVariant" -> "v"
      [] type = "MyStruct" -> "(is)"
      [] OTHER -> NullSignature

\* The local types of the declared properties (QMetaProperty::metaType()).
PropertyTypes == {"QVariant", "int", "QDBusVariant", "MyStruct", "Unregistered"}
Properties == { [name |-> "prop", type |-> t] : t \in PropertyTypes }

\* What a variant container in a reply may wrap; for a QDBusArgument the
\* signature is its currentSignature().
Payloads == { Value("int", "i", "42"),
              Value("QDBusArgument", "(is)", "raw"), Value("QDBusArgument", "(ii)", "raw"),
              Value("QDBusVariant", "v", "nested") }

PropertyReplyArgLists ==
    { StrArgs(n) : n \in 0..MaxReplyArgs }
        \cup { <<DBusVariant(p)>> \o StrArgs(n) : p \in Payloads, n \in 0..(MaxReplyArgs - 1) }
PropertyReplies ==
    ErrorReplies \cup { Message("ReplyMessage", NoError, a) : a \in PropertyReplyArgLists }

\* The values a caller writes to a property.
SetValues == { Value("int", "i", "7"), Value("QString", "s", "new") }

\* The slot behind returnValuePtr before property() runs.
UnwrittenSlot == InvalidVariant

\* "const char *expectedSignature": "" for a QVariant property, else the
\* registered signature (NullSignature when there is none).
expectedSignatureOf(type) == IF type = "QVariant" THEN "" ELSE typeToSignature(type)

\* A test that asks for a signature of the generic variant too.
isRegistered_NoExemption(type) == typeToSignature(type) # NullSignature

\* "is this metatype registered?": asked for every type but QVariant.
isRegistered(type) == type = "QVariant" \/ typeToSignature(type) # NullSignature

\* The "simple match" test of property().
simpleMatch(value, type) ==
    value.type = type \/ type = "QVariant" \/ expectedSignatureOf(type) = "v"

\* What the simple match stores: the variant itself for a QVariant
\* property, else an object of the property's type constructed from the
\* payload's data (raw is what that construction yields when the payload is
\* of another type).
simpleMatchResult(value, type, raw) ==
    IF type = "QVariant" \/ value.type = type THEN value
    ELSE Value(type, typeToSignature(type), IF raw = "asis" THEN value.data ELSE "garbage")

\* A test that counts the arguments instead of reading the signature.
replyHasVariantSignature_CountOnly(reply) == Len(reply.args) = 1

\* "reply.signature() != "v"_L1", negated.
replyHasVariantSignature(reply) == SignatureOf(reply.args) = "v"

\* lastError after a reply whose signature is not "v".
invalidReplySignature(reply) ==
    Err("InvalidSignature", <<<<"found signature", SignatureOf(reply.args)>>>>)

\* lastError after a payload that matches neither by type nor by signature.
unexpectedPayload(value, mp) ==
    Err("InvalidSignature",
        << <<"found type", IF value.type = "QDBusArgument" THEN "user type" ELSE value.type>>,
           <<"found signature",
             IF value.type = "QDBusArgument" THEN value.sig ELSE typeToSignature(value.type)>>,
           <<"interface", interface>>, <<"property", mp.name>>,
           <<"expected type", mp.type>>,
           <<"expected signature", expectedSignatureOf(mp.type)>> >>)

\* lastError after a property whose type has no D-Bus signature.
unregisteredType(mp) == Err("Failed", <<<<"unregistered type", mp.type>>>>)

\* The outcome of property() once the guard has passed: the message sent (if
\* any), the return value, the slot and lastError.  demarshalled is the
\* result of QDBusMetaType::demarshall(), raw the data a mismatched
\* construction yields.
propertyOutcome(mp, reply, demarshalled, raw) ==
    LET get == MethodCall("call", dbusInterfaceProperties, <<"G", "e", "t">>,
                          <<Str(interface), Str(mp.name)>>, "Block", FALSE)
        value == VariantOf(Head(reply.args))
    IN IF ~isRegistered(mp.type)
       THEN [sent |-> NoMessage, ok |-> FALSE, out |-> UnwrittenSlot, err |-> unregisteredType(mp)]
       ELSE IF reply.type # "ReplyMessage"
       THEN [sent |-> get, ok |-> FALSE, out |-> UnwrittenSlot, err |-> QDBusErrorOf(reply)]
       ELSE IF ~replyHasVariantSignature(reply)
       THEN [sent |-> get, ok |-> FALSE, out |-> UnwrittenSlot, err |-> invalidReplySignature(reply)]
       ELSE IF simpleMatch(value, mp.type)
       THEN [sent |-> get, ok |-> TRUE, out |-> simpleMatchResult(value, mp.type, raw),
             err |-> lastError]
       ELSE IF value.type = "QDBusArgument" /\ value.sig = expectedSignatureOf(mp.type)
       THEN [sent |-> get, ok |-> demarshalled,
             out |-> IF demarshalled THEN Value(mp.type, value.sig, value.data) ELSE UnwrittenSlot,
             err |-> lastError]
       ELSE [sent |-> get, ok |-> FALSE, out |-> UnwrittenSlot, err |-> unexpectedPayload(value, mp)]

\* Whether property() reaches QDBusMetaType::demarshall() for this reply.
demarshalls(mp, reply) ==
    /\ callGuard.ok
    /\ reply.type = "ReplyMessage" /\ replyHasVariantSignature(reply)
    /\ ~simpleMatch(VariantOf(reply.args[1]), mp.type)
    /\ VariantOf(reply.args[1]).type = "QDBusArgument"
    /\ VariantOf(reply.args[1]).sig = expectedSignatureOf(mp.type)

\* Whether property() constructs the slot from a payload of another type.
reinterprets(mp, reply) ==
    /\ callGuard.ok
    /\ reply.type = "ReplyMessage" /\ replyHasVariantSignature(reply)
    /\ simpleMatch(VariantOf(reply.args[1]), mp.type)
    /\ mp.type # "QVariant" /\ VariantOf(reply.args[1]).type # mp.type

\* What constructing an object from the data of a payload of another type
\* may yield: the payload's data taken as is, or anything else.
RawOutcomes == {"asis", "garbage"}

\* The properties written.
SetProperties == { mp \in Properties : mp.type \in {"int", "QVariant"} }

\* The replies to a "Set" call.
SetReplies == ErrorReplies \cup {Message("ReplyMessage", NoError, <<>>)}

\* QDBusAbstractInterfacePrivate::property
property(thread, mp, reply, demarshalled, raw) ==
    /\ pc = "ready"
    /\ last = Idle
    /\ IF ~callGuard.ok
       THEN /\ lastError' = callGuard.err
            /\ last' = [Observed("property", thread, lastError) EXCEPT !.in = <<mp>>]
       ELSE LET o == propertyOutcome(mp, reply, demarshalled, raw)
            IN /\ lastError' = o.err
               /\ last' = [Observed("property", thread, lastError)
                              EXCEPT !.in = <<mp>>, !.sent = o.sent,
                                     !.reply = IF o.sent = NoMessage THEN @ ELSE reply,
                                     !.ok = o.ok, !.out = o.out]
    /\ UNCHANGED <<outer, relayVars, pc, service, path, interface, isDynamic, connMode, connected, watchable,
                   timeout, interactiveAuthorizationAllowed, isValid, currentOwner,
                   watcher, ownerQueried>>

\* A setProperty that reports failure without storing the error.
setPropertyLastError_Keeps(reply, old) == old

\* lastError after the reply to a "Set" call.
setPropertyLastError(reply, old) ==
    IF reply.type # "ReplyMessage" THEN QDBusErrorOf(reply) ELSE old

\* QDBusAbstractInterfacePrivate::setProperty
setProperty(thread, mp, value, reply) ==
    /\ pc = "ready"
    /\ last = Idle
    /\ IF ~callGuard.ok
       THEN /\ lastError' = callGuard.err
            /\ last' = [Observed("setProperty", thread, lastError) EXCEPT !.in = <<mp, value>>]
       ELSE /\ lastError' = setPropertyLastError(reply, lastError)
            /\ last' = [Observed("setProperty", thread, lastError)
                           EXCEPT !.in = <<mp, value>>,
                                  !.sent = MethodCall("call", dbusInterfaceProperties,
                                                      <<"S", "e", "t">>,
                                                      <<Str(interface), Str(mp.name), DBusVariant(value)>>,
                                                      "Block", FALSE),
                                  !.reply = reply,
                                  !.ok = (reply.type = "ReplyMessage")]
    /\ UNCHANGED <<outer, relayVars, pc, service, path, interface, isDynamic, connMode, connected, watchable,
                   timeout, interactiveAuthorizationAllowed, isValid, currentOwner,
                   watcher, ownerQueried>>

\* QDBusAbstractInterface::timeout()
QDBusAbstractInterface_timeout == timeout

\* QDBusAbstractInterface::setTimeout
setTimeout(t) ==
    /\ pc = "ready"
    /\ last = Idle
    /\ timeout' = t
    /\ last' = [Observed("setTimeout", "owner", lastError) EXCEPT !.in = <<t>>]
    /\ UNCHANGED <<outer, relayVars, pc, service, path, interface, isDynamic, connMode, connected, watchable,
                   lastError, interactiveAuthorizationAllowed, isValid, currentOwner,
                   watcher, ownerQueried>>

\* QDBusAbstractInterface::setInteractiveAuthorizationAllowed
setInteractiveAuthorizationAllowed(enable) ==
    /\ pc = "ready"
    /\ last = Idle
    /\ interactiveAuthorizationAllowed' = enable
    /\ last' = [Observed("setInteractiveAuthorizationAllowed", "owner", lastError)
                   EXCEPT !.in = <<enable>>]
    /\ UNCHANGED <<outer, relayVars, pc, service, path, interface, isDynamic, connMode, connected, watchable,
                   lastError, timeout, isValid, currentOwner, watcher, ownerQueried>>

(***************************************************************************)
(* Signal relay                                                            *)
(***************************************************************************)
\* QObject::destroyed, the signal connectNotify() never relays.
destroyedSignal == "destroyed"

\* The signals the derived proxy type declares (the methods of type Signal
\* from QObject::staticMetaObject.methodCount() on), in method order.
DeclaredSignals == <<"changed", "removed">>

\* QMetaMethod(): no specific signal.
Wildcard == "*"

Signals == {destroyedSignal} \cup { DeclaredSignals[i] : i \in 1..Len(DeclaredSignals) }
Receivers == {"r1", "r2"}

\* The connections the receivers make: one listens to every signal, the
\* other to the first declared signal only.
Connections ==
    { <<"r1", s>> : s \in Signals } \cup { <<"r2", DeclaredSignals[1]>> }

\* The most DisconnectRelayEvents waiting in the event queue.
MaxEvents == 2

\* QObject::isSignalConnected
isSignalConnected(ls, signal) == \E r \in Receivers : <<r, signal>> \in ls

\* An invocation of conn->connectRelay() or conn->disconnectRelay().
RelayCall(via, signal) ==
    [via |-> via, service |-> service, path |-> path, interface |-> interface,
     signal |-> signal]

RECURSIVE applyRelayCalls(_, _)
\* The registrations of the connection after it has served the calls:
\* connectRelay() adds the registration unless it is there, disconnectRelay()
\* removes it if it is there.
applyRelayCalls(rs, calls) ==
    IF calls = <<>> THEN rs
    ELSE applyRelayCalls(IF Head(calls).via = "connectRelay"
                         THEN rs \cup {Head(calls).signal}
                         ELSE rs \ {Head(calls).signal},
                         Tail(calls))

\* A connectNotify() that does not look at the validity flag.
connectNotifyCalls_IgnoresValidity(signal) ==
    IF signal = destroyedSignal THEN <<>> ELSE <<RelayCall("connectRelay", signal)>>

\* A connectNotify() that relays every signal.
connectNotifyCalls_Every(signal) ==
    IF ~isValid THEN <<>> ELSE <<RelayCall("connectRelay", signal)>>

\* The calls QDBusAbstractInterface::connectNotify makes to the connection.
connectNotifyCalls(signal) ==
    IF ~isValid THEN <<>>
    ELSE IF signal = destroyedSignal THEN <<>>
    ELSE <<RelayCall("connectRelay", signal)>>

\* QObject::connect(proxy, signal, receiver, ...) and the connectNotify()
\* it ends with.
connectNotify(receiver, signal) ==
    /\ pc = "ready"
    /\ <<receiver, signal>> \notin listeners
    /\ listeners' = listeners \cup {<<receiver, signal>>}
    /\ relays' = applyRelayCalls(relays, connectNotifyCalls(signal))
    /\ last' = [Observed("connectNotify", "owner", lastError)
                   EXCEPT !.in = <<signal>>, !.sent = connectNotifyCalls(signal)]
    /\ UNCHANGED <<events, proxyVars, outer>>

\* A disconnectNotify() that posts the event twice.
postDisconnectRelayEvent_Twice(signal) ==
    IF ~isValid THEN events ELSE Append(Append(events, signal), signal)

\* A disconnectNotify() that forgets the deferred disconnection.
postDisconnectRelayEvent_Dropped(signal) == events

\* "QCoreApplication::postEvent(this, new DisconnectRelayEvent(this, signal))"
\* for a valid proxy: the event queue after disconnectNotify().
postDisconnectRelayEvent(signal) ==
    IF ~isValid THEN events ELSE Append(events, signal)

\* QObject::disconnect(proxy, signal, receiver, ...) and the
\* disconnectNotify() it ends with; with no specific signal (Wildcard) every
\* connection of the receiver goes and the notification names no signal.
disconnectNotify(receiver, signal) ==
    /\ pc = "ready"
    /\ isValid => Len(events) < MaxEvents
    /\ IF signal = Wildcard
       THEN /\ \E s \in Signals : <<receiver, s>> \in listeners
            /\ listeners' = { l \in listeners : l[1] # receiver }
       ELSE /\ <<receiver, signal>> \in listeners
            /\ listeners' = listeners \ {<<receiver, signal>>}
    /\ events' = postDisconnectRelayEvent(signal)
    /\ last' = [Observed("disconnectNotify", "owner", lastError) EXCEPT !.in = <<signal>>]
    /\ UNCHANGED <<relays, proxyVars, outer>>

\* A deferred step whose wildcard deregisters every declared signal.
finishDisconnectNotifyCalls_WildcardAll(signalId) ==
    IF signalId # Wildcard
    THEN IF ~isSignalConnected(listeners, signalId)
         THEN <<RelayCall("disconnectRelay", signalId)>>
         ELSE <<>>
    ELSE [i \in 1..Len(DeclaredSignals) |-> RelayCall("disconnectRelay", DeclaredSignals[i])]

\* A deferred step that deregisters whatever the event names.
finishDisconnectNotifyCalls_Unconditional(signalId) ==
    IF signalId # Wildcard
    THEN <<RelayCall("disconnectRelay", signalId)>>
    ELSE [i \in 1..Len(DeclaredSignals) |-> RelayCall("disconnectRelay", DeclaredSignals[i])]

\* The calls QDBusAbstractInterfacePrivate::finishDisconnectNotify makes to
\* the connection: for a specific signal, disconnectRelay() if nothing is
\* connected to it; for the wildcard, disconnectRelay() for every declared
\* signal nothing is connected to.
finishDisconnectNotifyCalls(signalId) ==
    IF signalId # Wildcard
    THEN IF ~isSignalConnected(listeners, signalId)
         THEN <<RelayCall("disconnectRelay", signalId)>>
         ELSE <<>>
    ELSE LET idle == SelectSeq(DeclaredSignals, LAMBDA sig : ~isSignalConnected(listeners, sig))
         IN [i \in 1..Len(idle) |-> RelayCall("disconnectRelay", idle[i])]

\* DisconnectRelayEvent::placeMetaCall: the event loop of the owning thread
\* delivers the oldest posted event to finishDisconnectNotify().
finishDisconnectNotify(signalId) ==
    /\ pc = "ready"
    /\ events # <<>>
    /\ signalId = Head(events)
    /\ events' = Tail(events)
    /\ relays' = applyRelayCalls(relays, finishDisconnectNotifyCalls(signalId))
    /\ last' = [Observed("finishDisconnectNotify", "owner", lastError)
                   EXCEPT !.in = <<signalId>>, !.sent = finishDisconnectNotifyCalls(signalId)]
    /\ UNCHANGED <<listeners, proxyVars, outer>>

(***************************************************************************)
(* The callers: each operation with every input, on the idle proxy         *)
(***************************************************************************)
Construct ==
    \E w \in BOOLEAN, owner \in Owners :
       /\ pc = "constructed"
       \* the connection watches only a named service on a bus ("We don't
       \* retrieve the owner name for peer connections"); it is asked for the
       \* owner only when owner tracking starts
       /\ w => (connMode = "ClientMode" /\ service # "")
       /\ ~tracksOwner(w) => owner = ""
       /\ initOwnerTracking(w, owner)

IsValid ==
    /\ last = Idle
    /\ \E t \in Threads : isValidCall(t)

OwnerChange ==
    /\ last = Idle
    /\ \E o, n \in Owners : _q_serviceOwnerChanged(service, o, n)

Call ==
    /\ last = Idle
    /\ \E t \in Threads, c \in CallInputs :
          \E r \in connectionReplies(resolveMode(c[1], bareMethod(c[2])), CallReplies) :
             callWithArgumentList(t, c[1], c[2], c[3], r)

AsyncCall ==
    /\ last = Idle
    /\ \E t \in Threads, c \in MethodInputs : asyncCallWithArgumentList(t, c[1], c[2])

CallbackCall ==
    /\ last = Idle
    /\ \E t \in Threads, c \in MethodInputs, b \in BOOLEAN :
          \* a connection that is not connected registers nothing
          /\ b => connected
          /\ callWithCallback(t, c[1], c[2], b)

PropertyGet ==
    /\ last = Idle
    /\ \E t \in Threads, mp \in Properties, r \in connectionReplies("Block", PropertyReplies),
            dem \in BOOLEAN, raw \in RawOutcomes :
          \* the environment's choices are distinguished only where they are used
          /\ dem \/ demarshalls(mp, r)
          /\ raw = "garbage" => reinterprets(mp, r)
          /\ property(t, mp, r, dem, raw)

PropertySet ==
    /\ last = Idle
    /\ \E t \in Threads, mp \in SetProperties, v \in SetValues,
            r \in connectionReplies("Block", SetReplies) :
          setProperty(t, mp, v, r)

SetTimeout ==
    /\ last = Idle
    /\ \E t \in Timeouts : setTimeout(t)

SetInteractiveAuthorizationAllowed ==
    /\ last = Idle
    /\ \E b \in BOOLEAN : setInteractiveAuthorizationAllowed(b)

Next ==
    \/ Constructor
    \/ Construct
    \/ Return
    \/ IsValid
    \/ OwnerChange
    \/ Call
    \/ AsyncCall
    \/ CallbackCall
    \/ PropertyGet
    \/ PropertySet
    \/ SetTimeout
    \/ SetInteractiveAuthorizationAllowed

Spec == Init /\ [][Next]_vars

ConnectNotify == \E c \in Connections : connectNotify(c[1], c[2])

DisconnectNotify == \E r \in Receivers, s \in Signals \cup {Wildcard} : disconnectNotify(r, s)

PlaceMetaCall == \E e \in Signals \cup {Wildcard} : finishDisconnectNotify(e)

RelayNext ==
    \/ Constructor
    \/ Construct
    \/ ConnectNotify
    \/ DisconnectNotify
    \/ PlaceMetaCall

RelaySpec == Init /\ [][RelayNext]_vars

\* The event loop of the owning thread keeps running: a posted event is
\* eventually delivered.
RelayFairSpec == RelaySpec /\ WF_vars(PlaceMetaCall)

\* The calls that wait for their reply in this specification: made on the
\* thread that owns the proxy, whose event loop delivers what is addressed
\* to the proxy, with and without the event loop running during the wait.
OuterCalls ==
    { <<mode, <<"X">>, <<>>>> : mode \in {"Block", "BlockWithGui"} }

\* The waiting call lets the event loop run: QDBus::BlockWithGui
\* (UseEventLoop).
reenters == outer.state = "waiting" /\ outer.mode = "BlockWithGui"

CallBegin == \E c \in OuterCalls : callBegin("owner", c[1], c[2], c[3])

CallEnd == \E r \in connectionReplies(outer.mode, CallReplies) : callEnd(r)

ReturnOuter == returnOuter

NestedCall == reenters /\ Call

NestedCallbackCall == reenters /\ CallbackCall

NestedPropertyGet == reenters /\ PropertyGet

NestedPropertySet == reenters /\ PropertySet

\* The caller of an operation that is not the waiting call takes its result.
InnerReturn == outer.state # "returned" /\ Return

ReentrantNext ==
    \/ Constructor
    \/ Construct
    \/ CallBegin
    \/ NestedCall
    \/ NestedCallbackCall
    \/ NestedPropertyGet
    \/ NestedPropertySet
    \/ InnerReturn
    \/ CallEnd
    \/ ReturnOuter

ReentrantSpec == Init /\ [][ReentrantNext]_vars

(***************************************************************************)
(* Properties                                                              *)
(***************************************************************************)
\* The operation just run handed no message to the connection.
sentNothing == last.sent = NoMessage

\* The guard of the operations fails on this proxy.
guardFails == ~isValid \/ canMakeCalls # NoError

\* C1: a callWithArgumentList on a proxy whose validity flag is false, or for
\* which canMakeCalls() fails, never invokes the connection and returns an
\* error message built from the stored lastError (which a false flag leaves
\* as it was).
C1_GuardedCallReturnsLastError ==
    (last.op = "call" /\ guardFails)
        => /\ sentNothing
           /\ last.ret = createError(lastError)
           /\ last.ret.type = "ErrorMessage"
           /\ ~isValid => lastError = last.before

C1_Witness ==
    /\ last.op = "call" /\ isValid /\ canMakeCalls # NoError
    /\ last.ret = createError(canMakeCalls) /\ last.before # lastError

\* C2 as stated: a synchronous call on a proxy whose isValid() is false
\* returns an error reply and hands no message to the connection (stated
\* here for the connected connection, the only one that would do I/O).
C2_UnreachableCallIsNotSent ==
    (last.op = "call" /\ ~QDBusAbstractInterface_isValid /\ connected)
        => (sentNothing /\ last.ret.type = "ErrorMessage")

\* C2 amended: on a proxy whose isValid() is false, a synchronous call
\* returns the synthetic error reply without invoking the connection exactly
\* when the validity flag is false or canMakeCalls() fails; when isValid() is
\* false only because currentOwner is empty, the message is handed to the
\* connection and the connection's reply is returned.
C2_UnreachableCallSentUnlessGuardFails ==
    (last.op = "call" /\ ~QDBusAbstractInterface_isValid)
        => IF guardFails
           THEN sentNothing /\ last.ret.type = "ErrorMessage"
           ELSE ~sentNothing /\ last.ret = ensureArgument(last.reply)

C2_Witness ==
    /\ last.op = "call" /\ ~QDBusAbstractInterface_isValid
    /\ connMode = "ClientMode" /\ connected /\ isValid /\ currentOwner = ""
    /\ ~sentNothing /\ last.reply.type = "ReplyMessage"

\* C3: isValid() answers the validity flag on a peer connection and
\* (currentOwner non-empty) on a named bus; on a named bus a true flag
\* without a tracked owner never makes it answer true.
C3_IsValidTracksOwner ==
    /\ last.op = "isValid"
          => last.ok = (IF isPeerConnection THEN isValid ELSE currentOwner # "")
    /\ (last.op = "isValid" /\ ~isPeerConnection /\ last.ok)
          => (isValid /\ watcher /\ ownerQueried)
    /\ (~isPeerConnection /\ ~watcher) => ~QDBusAbstractInterface_isValid

C3_Witness ==
    /\ last.op = "isValid" /\ ~isPeerConnection /\ isValid /\ ~last.ok

\* C4: after an owner-change notification currentOwner is its newOwner,
\* whatever oldOwner and the cached value were; the notification changes
\* neither lastError, the validity flag, the timeout, the
\* interactive-authorization flag nor the identity; a notification with an
\* empty newOwner leaves isValid() false on a named bus.
C4_OwnerChangeStep ==
    (last'.op = "serviceOwnerChanged" /\ last.op # "serviceOwnerChanged")
        => /\ currentOwner' = last'.in[3]
           /\ UNCHANGED <<lastError, isValid, timeout, interactiveAuthorizationAllowed,
                          service, path, interface>>

C4_OwnerIsLastNewOwner ==
    /\ [] (last.op = "serviceOwnerChanged"
              => /\ currentOwner = last.in[3]
                 /\ (~isPeerConnection /\ last.in[3] = "") => ~QDBusAbstractInterface_isValid)
    /\ [][C4_OwnerChangeStep]_vars

C4_Witness ==
    /\ last.op = "serviceOwnerChanged" /\ last.in = <<service, ":1.7", "">>
    /\ ~isPeerConnection /\ isValid /\ currentOwner = "" /\ ~QDBusAbstractInterface_isValid

\* C5: the validity flag is false iff checkIfValid() reported an error in
\* the constructor; no operation changes the flag or the identity afterwards;
\* so a synchronous call made after a failed operation (lastError holds an
\* error) on a proxy that passes the guard is dispatched, and with a normal
\* reply it returns that reply and, on the owning thread, clears lastError.
C5_FlagFrame == pc # "new" => UNCHANGED <<isValid, service, path, interface>>

C6_CallStoresReplyError ==
    (last.op = "call" /\ last.thread = "owner" /\ ~sentNothing)
        => /\ last.reply.type = "ReplyMessage" => lastError = NoError
           /\ last.reply.type = "ErrorMessage" => lastError = last.reply.err

C6_Witness ==
    /\ last.op = "call" /\ last.thread = "owner" /\ ~sentNothing
    /\ last.before \in RemoteErrors /\ last.reply.type = "ErrorMessage"
    /\ last.reply.err # last.before /\ lastError = last.reply.err

\* C7: right after a synchronous operation issued from the owning thread
\* (method call, property get, property set), lastError is 'no error' if the
\* operation succeeded and the reply's error if a call was answered by an
\* error message.
C7_LastErrorReflectsLastOperation ==
    (last.thread = "owner" /\ ~sentNothing)
        => /\ (last.op = "call" /\ last.reply.type = "ErrorMessage")
                 => lastError = last.reply.err
           /\ (last.op = "call" /\ last.reply.type = "ReplyMessage") => lastError = NoError
           /\ (last.op \in {"property", "setProperty"} /\ last.ok) => lastError = NoError

\* C8: an operation issued from a thread other than the owning thread leaves
\* lastError as it was.
C8_ForeignThreadKeepsLastError ==
    (last.thread = "other"
        /\ last.op \in {"call", "asyncCall", "callWithCallback", "property", "setProperty"})
        => lastError = last.before

\* The payload of a reply that is a single variant container.
payloadOf(reply) == VariantOf(Head(reply.args))

\* C9: a property get answered by a normal reply with a single variant
\* container whose payload has the expected local type returns true, stores
\* the payload in the output slot and leaves lastError 'no error'.
C9_MatchingGetClearsLastError ==
    (/\ last.op = "property" /\ ~sentNothing
     /\ last.reply.type = "ReplyMessage" /\ SignatureOf(last.reply.args) = "v"
     /\ payloadOf(last.reply).type = last.in[1].type)
        => (last.ok /\ last.out = payloadOf(last.reply) /\ lastError = NoError)

\* The error's description names an expected type or an expected signature.
carriesExpected(err) ==
    \E i \in 1..Len(err.msg) : err.msg[i][1] \in {"expected type", "expected signature"}

\* The error's description names the signature found in the reply.
carriesFound(err, reply) ==
    \E i \in 1..Len(err.msg) : err.msg[i] = <<"found signature", SignatureOf(reply.args)>>

\* A property get was answered by a normal reply whose signature is not "v".
getWithWrongSignature ==
    /\ last.op = "property" /\ ~sentNothing
    /\ last.reply.type = "ReplyMessage" /\ SignatureOf(last.reply.args) # "v"

\* C10 as stated: such a get returns false, leaves the output slot unwritten
\* and sets lastError to an InvalidSignature error that carries both the
\* found and the expected descriptors.
C10_WrongSignatureNamesFoundAndExpected ==
    getWithWrongSignature
        => /\ ~last.ok /\ last.out = UnwrittenSlot
           /\ lastError.type = "InvalidSignature"
           /\ carriesFound(lastError, last.reply)
           /\ carriesExpected(lastError)

\* C10 amended: such a get returns false, leaves the output slot unwritten
\* and sets lastError to an InvalidSignature error that carries the found
\* signature only.
C10_WrongSignatureNamesFound ==
    getWithWrongSignature
        => /\ ~last.ok /\ last.out = UnwrittenSlot
           /\ lastError.type = "InvalidSignature"
           /\ carriesFound(lastError, last.reply)
           /\ ~carriesExpected(lastError)

C10_Witness ==
    /\ getWithWrongSignature /\ SignatureOf(last.reply.args) = "vs"
    /\ last.before = NoError /\ lastError.type = "InvalidSignature"

\* C11: a property set on a proxy whose validity flag is false, or for which
\* canMakeCalls() fails, returns false and sends nothing; otherwise it sends
\* exactly one blocking "Set" call to the standard properties interface with
\* (interface name, property name, value wrapped in a variant container),
\* returns true iff the reply is a normal reply, and on any other reply
\* returns false with lastError equal to the error of that reply.
C11_SetSendsOneBlockingSet ==
    last.op = "setProperty"
        => IF guardFails
           THEN ~last.ok /\ sentNothing
           ELSE /\ Len(last.sent) = 1
                /\ last.sent[1].via = "call" /\ last.sent[1].mode = "Block"
                /\ last.sent[1].service = service /\ last.sent[1].path = path
                /\ last.sent[1].interface = "org.freedesktop.DBus.Properties"
                /\ last.sent[1].member = <<"S", "e", "t">>
                /\ last.sent[1].args
                      = <<Str(interface), Str(last.in[1].name), DBusVariant(last.in[2])>>
                /\ last.ok = (last.reply.type = "ReplyMessage")
                /\ last.reply.type # "ReplyMessage"
                      => (~last.ok /\ lastError = last.reply.err)

C11_Witness ==
    /\ last.op = "setProperty" /\ ~sentNothing /\ last.before = NoError
    /\ last.reply.type = "ErrorMessage" /\ ~last.ok /\ lastError \in RemoteErrors

\* The declared methods of the derived type that carry the name m.
declaredAs(m) == { i \in 1..Len(DeclaredMethods) : DeclaredMethods[i].name = m }

\* The i-th declared method is tagged no-reply.
taggedNoReply(i) ==
    \E k \in 1..Len(DeclaredMethods[i].tag) : DeclaredMethods[i].tag[k] = "Q_NOREPLY"

\* A synchronous call was dispatched with mode AutoDetect.
autoDetectedCall == last.op = "call" /\ ~sentNothing /\ last.in[1] = "AutoDetect"

\* C12 as stated: an explicit mode is passed on unchanged; an auto-detected
\* call is fire-and-forget iff some declared method with the bare method
\* name is tagged no-reply, and blocking otherwise.
C12_AutoDetectAnyTaggedMethod ==
    /\ (last.op = "call" /\ ~sentNothing /\ last.in[1] # "AutoDetect")
          => last.sent[1].mode = last.in[1]
    /\ autoDetectedCall
          => last.sent[1].mode
                = (IF \E i \in declaredAs(bareMethod(last.in[2])) : taggedNoReply(i)
                   THEN "NoBlock" ELSE "Block")

\* C12 amended: an explicit mode is passed on unchanged; an auto-detected
\* call is fire-and-forget iff the first declared method with the bare
\* method name is tagged no-reply, and blocking otherwise, also when no
\* declared method has that name.
C12_AutoDetectFirstDeclaredMethod ==
    /\ (last.op = "call" /\ ~sentNothing /\ last.in[1] # "AutoDetect")
          => last.sent[1].mode = last.in[1]
    /\ autoDetectedCall
          => last.sent[1].mode
                = (IF \E i \in declaredAs(bareMethod(last.in[2])) :
                         /\ taggedNoReply(i)
                         /\ \A j \in declaredAs(bareMethod(last.in[2])) : i <= j
                   THEN "NoBlock" ELSE "Block")

C12_Witness ==
    /\ autoDetectedCall /\ last.in[2] = <<"O">> /\ last.sent[1].mode = "Block"
    /\ \E i \in declaredAs(<<"O">>) : taggedNoReply(i)

\* C13: the message a dispatched callWithArgumentList returns has at least
\* one argument: a reply without arguments comes back with exactly one
\* invalid placeholder argument, a reply with arguments comes back unchanged.
C13_ReturnedMessageHasAnArgument ==
    (last.op = "call" /\ ~sentNothing)
        => /\ Len(last.ret.args) >= 1
           /\ last.ret.type = last.reply.type /\ last.ret.err = last.reply.err
           /\ last.reply.args = <<>> => last.ret.args = <<InvalidVariant>>
           /\ last.reply.args # <<>> => last.ret.args = last.reply.args

C13_Witness ==
    /\ last.op = "call" /\ ~sentNothing /\ last.reply.type = "ReplyMessage"
    /\ last.reply.args = <<>> /\ last.ret.args = <<InvalidVariant>>

\* C14 as stated: asyncCallWithArgumentList leaves lastError as it was on
\* every path.
C14_AsyncCallKeepsLastError ==
    last.op = "asyncCall" => lastError = last.before

\* C14 amended: asyncCallWithArgumentList leaves lastError as it was when the
\* validity flag is false and when the message is handed to the connection;
\* when the flag is true and canMakeCalls() fails, lastError becomes the
\* empty-name error of canMakeCalls(), which is also the error returned.
C14_AsyncCallStoresOnlyGuardError ==
    last.op = "asyncCall"
        => /\ ~isValid => (lastError = last.before /\ sentNothing)
           /\ (isValid /\ canMakeCalls # NoError)
                 => /\ lastError = canMakeCalls /\ sentNothing
                    /\ last.ret = createError(canMakeCalls)
           /\ ~guardFails => (lastError = last.before /\ ~sentNothing)

C14_Witness ==
    /\ last.op = "asyncCall" /\ isValid /\ canMakeCalls # NoError
    /\ last.before = NoError /\ lastError = canMakeCalls /\ sentNothing

\* C15: the message of every dispatched asyncCallWithArgumentList has the
\* interactive-authorization flag set iff interactiveAuthorizationAllowed is
\* true at the time of the call; the value is false until the first
\* setInteractiveAuthorizationAllowed, and only that operation changes it,
\* to the value it is given.
C15_AuthorizationStep ==
    interactiveAuthorizationAllowed' # interactiveAuthorizationAllowed
        => /\ last'.op = "setInteractiveAuthorizationAllowed"
           /\ interactiveAuthorizationAllowed' = last'.in[1]

C15_AsyncCallCarriesAuthorization ==
    /\ [] ((last.op = "asyncCall" /\ ~sentNothing)
              => /\ Len(last.sent) = 1
                 /\ last.sent[1].interactiveAuth = interactiveAuthorizationAllowed)
    /\ [] (pc # "ready" => ~interactiveAuthorizationAllowed)
    /\ [][C15_AuthorizationStep]_vars

C15_Witness ==
    /\ last.op = "asyncCall" /\ ~sentNothing /\ last.sent[1].interactiveAuth
    /\ last.sent[1].args = <<Str("hi")>>

\* C16: callWithCallback on a proxy whose validity flag is false, or for
\* which canMakeCalls() fails, returns false without invoking the
\* connection; otherwise it clears lastError, hands one message to the
\* connection's callback-call primitive and returns the registration result
\* of the connection.
C16_CallbackReturnsRegistration ==
    last.op = "callWithCallback"
        => IF guardFails
           THEN ~last.ok /\ sentNothing
           ELSE /\ Len(last.sent) = 1 /\ last.sent[1].via = "callWithCallback"
                /\ lastError = NoError
                /\ last.ok = last.in[3]

C16_Witness ==
    /\ last.op = "callWithCallback" /\ ~sentNothing /\ last.before \in RemoteErrors
    /\ lastError = NoError /\ ~last.ok /\ connected

\* C17: a proxy with a syntactically valid identity constructed on a
\* connection that is not connected has its validity flag true, no
\* owner-change watch, no owner query, an empty currentOwner and, on a named
\* bus, isValid() false; when construction ends its lastError is the
\* Disconnected error.
C17_DisconnectedConstruction ==
    (/\ pc # "new" /\ ~connected
     /\ checkIfValid(service, path, interface, isDynamic, isPeerConnection) = NoError)
        => /\ isValid /\ ~watcher /\ ~ownerQueried /\ currentOwner = ""
           /\ ~isPeerConnection => ~QDBusAbstractInterface_isValid
           /\ (pc = "constructed" \/ last.op = "initOwnerTracking")
                 => lastError = DisconnectedError /\ lastError.type = "Disconnected"

C17_Witness ==
    /\ pc = "ready" /\ last.op = "initOwnerTracking" /\ ~connected /\ ~isPeerConnection
    /\ identity = <<GoodName, "/obj", GoodName>> /\ isValid
    /\ lastError.type = "Disconnected" /\ ~watcher /\ ~QDBusAbstractInterface_isValid

\* The error of the first rule of checkIfValid() that the identity of the
\* proxy violates, in the order service, path, interface; NoError when it
\* violates none.
firstViolatedRule ==
    IF service # "" /\ ~isValidBusName(service)
    THEN Err("MalformedName", <<<<"kind", "service">>, <<"name", service>>>>)
    ELSE IF service = "" /\ isDynamic /\ ~isPeerConnection
    THEN Err("EmptyNameNotAllowed", <<<<"kind", "service">>>>)
    ELSE IF path # "" /\ ~isValidObjectPath(path)
    THEN Err("MalformedName", <<<<"kind", "path">>, <<"name", path>>>>)
    ELSE IF path = "" /\ isDynamic
    THEN Err("EmptyNameNotAllowed", <<<<"kind", "path">>>>)
    ELSE IF interface # "" /\ ~isValidInterfaceName(interface)
    THEN Err("MalformedName", <<<<"kind", "interface">>, <<"name", interface>>>>)
    ELSE NoError

\* C20: checkIfValid() reports an error iff the service is malformed, or
\* empty on a dynamic proxy of a non-peer connection, or the path is
\* malformed, or empty on a dynamic proxy, or the interface is non-empty and
\* malformed; the error is that of the first rule violated in the order
\* service, path, interface, and an empty interface is never rejected.
C20_CheckIfValidRules ==
    pc = "constructed"
        => /\ isValid = (firstViolatedRule = NoError)
           /\ ~isValid
                 <=> \/ service # "" /\ ~isValidBusName(service)
                     \/ service = "" /\ isDynamic /\ ~isPeerConnection
                     \/ path # "" /\ ~isValidObjectPath(path)
                     \/ path = "" /\ isDynamic
                     \/ interface # "" /\ ~isValidInterfaceName(interface)
           /\ ~isValid => lastError = firstViolatedRule
           /\ (interface = "" /\ ~isValid) => lastError.msg[1] # <<"kind", "interface">>

C20_Witness ==
    /\ pc = "constructed" /\ service = "bad..name" /\ path = "" /\ isDynamic
    /\ interface = "" /\ lastError = Err("MalformedName", <<<<"kind", "service">>, <<"name", "bad..name">>>>)

\* The signals connectNotify() relays: every signal but QObject::destroyed.
RelayableSignals == Signals \ {destroyedSignal}

\* At least one local listener is attached to the signal.
hasListener(signal) == isSignalConnected(listeners, signal)

\* A posted event that will look at the signal is waiting.
disconnectPending(signal) ==
    \E i \in 1..Len(events) : events[i] \in {signal, Wildcard}

\* C18 as stated: in every state of a valid proxy, a relayable signal has a
\* relay registered on the connection iff it has a local listener, also
\* between a detach and the processing of the deferred event.
C18_RelayIffListener ==
    (pc = "ready" /\ isValid)
        => \A s \in RelayableSignals : (s \in relays) <=> hasListener(s)

\* C18 amended: in every state of a valid proxy, a relayable signal with a
\* local listener has a relay registered, only relayable signals are
\* registered, and a signal without listeners is registered only while a
\* deferred disconnect event for it (or a wildcard one) waits to be processed.
C18_RelayIffListenerOrPending ==
    (pc = "ready" /\ isValid)
        => /\ relays \subseteq RelayableSignals
           /\ \A s \in RelayableSignals :
                 /\ hasListener(s) => s \in relays
                 /\ (s \in relays /\ ~hasListener(s)) => disconnectPending(s)

C18_Witness ==
    /\ pc = "ready" /\ isValid /\ last.op = "disconnectNotify" /\ last.in = <<"changed">>
    /\ "changed" \in relays /\ ~hasListener("changed") /\ events = <<"changed">>

\* C19: on a valid proxy, whenever no deferred disconnect event is waiting,
\* the signals registered on the connection are exactly the relayable
\* signals with a listener; an event processed for a signal without
\* listeners leaves it unregistered; and with the event loop running, a
\* registration without a listener does not stay: it is removed or a
\* listener attaches again.
C19_RelaysConvergeToListeners ==
    /\ [] ((pc = "ready" /\ isValid /\ events = <<>>)
              => relays = { s \in RelayableSignals : hasListener(s) })
    /\ [] ((last.op = "finishDisconnectNotify" /\ ~hasListener(last.in[1]))
              => last.in[1] \notin relays)
    /\ \A s \in RelayableSignals :
          (s \in relays /\ ~hasListener(s)) ~> (s \notin relays \/ hasListener(s))

C19_Witness ==
    /\ last.op = "finishDisconnectNotify" /\ last.in = <<"changed">>
    /\ Len(last.sent) = 1 /\ last.sent[1].via = "disconnectRelay"
    /\ listeners = {} /\ relays = {} /\ events = <<>> /\ isValid

\* The operations that hand a message to the connection.
DispatchingOperations == {"call", "asyncCall", "callWithCallback", "property", "setProperty"}

\* C21: every message handed to the connection (synchronous call, property
\* Get and Set, asynchronous call, callback call) carries the value timeout()
\* returns; that value is -1 until the first setTimeout, becomes what
\* setTimeout is given, and nothing else changes it.
C21_TimeoutStep ==
    timeout' # timeout => (last'.op = "setTimeout" /\ timeout' = last'.in[1])

C21_MessagesCarryTimeout ==
    /\ [] (last.op \in DispatchingOperations
              => \A i \in 1..Len(last.sent) :
                    last.sent[i].timeout = QDBusAbstractInterface_timeout)
    /\ [] (last.op = "setTimeout" => QDBusAbstractInterface_timeout = last.in[1])
    /\ [] (pc # "ready" => QDBusAbstractInterface_timeout = -1)
    /\ [][C21_TimeoutStep]_vars

C21_Witness ==
    /\ last.op = "property" /\ ~sentNothing /\ last.sent[1].timeout = 500
    /\ QDBusAbstractInterface_timeout = 500

\* A property get was answered by a normal reply that is a single variant
\* container.
getWithVariantReply ==
    /\ last.op = "property" /\ ~sentNothing
    /\ last.reply.type = "ReplyMessage" /\ SignatureOf(last.reply.args) = "v"

\* Case (a) of the acceptance order: the payload has the expected local
\* type, or the expected type is the generic variant, or the expected wire
\* signature is "v".
acceptedAsIs ==
    \/ payloadOf(last.reply).type = last.in[1].type
    \/ last.in[1].type = "QVariant"
    \/ expectedSignatureOf(last.in[1].type) = "v"

\* Case (b): the payload is a marshalled value with the expected signature.
acceptedByDemarshalling ==
    /\ ~acceptedAsIs
    /\ payloadOf(last.reply).type = "QDBusArgument"
    /\ payloadOf(last.reply).sig = expectedSignatureOf(last.in[1].type)

getOfUnregisteredType ==
    /\ last.op = "property" /\ ~guardFails
    /\ last.in[1].type # "QVariant" /\ typeToSignature(last.in[1].type) = NullSignature

\* The error's description carries a descriptor of this kind.
names(err, what) == \E i \in 1..Len(err.msg) : err.msg[i][1] = what

\* C23 as stated: such a get returns false without sending a message and
\* sets lastError to an UnregisteredType error that names the type and the
\* property; a get of a generic-variant property is not subject to the check.
C23_UnregisteredTypeNamesTypeAndProperty ==
    /\ getOfUnregisteredType
          => /\ ~last.ok /\ sentNothing
             /\ lastError.type = "UnregisteredType"
             /\ names(lastError, "unregistered type") /\ names(lastError, "property")
    /\ (last.op = "property" /\ ~guardFails /\ last.in[1].type = "QVariant") => ~sentNothing

\* C23 amended: such a get returns false without sending a message and sets
\* lastError to an error of kind Failed that names the offending type only;
\* a get of a generic-variant property, which has no wire signature either,
\* is not subject to the check and sends its Get.
C23_UnregisteredTypeIsFailedNamingType ==
    /\ getOfUnregisteredType
          => /\ ~last.ok /\ sentNothing /\ last.out = UnwrittenSlot
             /\ lastError = Err("Failed", <<<<"unregistered type", last.in[1].type>>>>)
             /\ ~names(lastError, "property")
    /\ (last.op = "property" /\ ~guardFails /\ last.in[1].type = "QVariant")
          => (~sentNothing /\ typeToSignature("QVariant") = NullSignature)

C23_Witness ==
    /\ getOfUnregisteredType /\ last.in[1].type = "Unregistered"
    /\ last.before = NoError /\ lastError.type = "Failed" /\ sentNothing

\* Owner tracking started in the initOwnerTracking() just run: the flag is
\* true, the connection is connected and it reported the service watchable.
ownerTrackingRuns == isValid /\ connected /\ last.in[1]

\* C24: initOwnerTracking() registers the owner-change watch and queries the
\* owner iff the validity flag is true, the connection is connected and the
\* connection reports the service as watchable; when it does, currentOwner
\* is the answer, and lastError is the connection's lastError for an empty
\* answer and unchanged otherwise; when it does not, currentOwner is empty
\* and lastError unchanged.
C24_OwnerTrackingStartsIffWatchable ==
    last.op = "initOwnerTracking"
        => /\ watcher <=> ownerTrackingRuns
           /\ ownerQueried <=> ownerTrackingRuns
           /\ ownerTrackingRuns
                 => /\ currentOwner = last.in[2]
                    /\ last.in[2] = "" => lastError = ConnectionLastError
                    /\ last.in[2] # "" => lastError = last.before
           /\ ~ownerTrackingRuns => (currentOwner = "" /\ lastError = last.before)

C24_Witness ==
    /\ last.op = "initOwnerTracking" /\ ownerTrackingRuns /\ watcher
    /\ currentOwner = ":1.7" /\ lastError = NoError

\* The empty-name error canMakeCalls() stores for this proxy: the service's
\* when the service is empty on a connection that is not a peer connection,
\* else the path's when the path is empty; NoError when it returns true.
emptyNameError ==
    IF service = "" /\ ~isPeerConnection THEN Err("EmptyNameNotAllowed", <<<<"kind", "service">>>>)
    ELSE IF path = "" THEN Err("EmptyNameNotAllowed", <<<<"kind", "path">>>>)
    ELSE NoError

\* The service is empty on a connection that is not a peer connection, or
\* the path is empty.
emptyNameRefused == (service = "" /\ ~isPeerConnection) \/ path = ""

\* C25: on a proxy whose validity flag is true, an operation is stopped by
\* canMakeCalls(), with lastError the empty-name-not-allowed error, iff the
\* service is empty on a non-peer connection or the path is empty, and the
\* error is the service's when both are; otherwise the operation goes on,
\* and an asynchronous call, which stores nothing itself, leaves lastError
\* unchanged.  An empty service on a peer connection does not stop it.
C25_CanMakeCallsRechecksEmptyNames ==
    (last.op \in DispatchingOperations /\ isValid)
        => /\ last.op # "property" => (sentNothing <=> emptyNameRefused)
           /\ emptyNameRefused
                 => (sentNothing /\ lastError = emptyNameError
                        /\ lastError.type = "EmptyNameNotAllowed")
           /\ (service = "" /\ isPeerConnection /\ path # "" /\ last.op # "property")
                 => ~sentNothing
           /\ (emptyNameError = NoError /\ last.op = "asyncCall") => lastError = last.before

C25_Witness ==
    /\ last.op = "call" /\ isValid /\ service = "" /\ path = "" /\ ~isPeerConnection
    /\ sentNothing /\ lastError = Err("EmptyNameNotAllowed", <<<<"kind", "service">>>>)

\* The operation observed last is one of the listener notifications or the
\* deferred step.
relayOperation ==
    last.op \in {"connectNotify", "disconnectNotify", "finishDisconnectNotify"}

\* C26: a proxy whose identity validation failed at construction keeps the
\* validation error in lastError, never has an owner-change watch, never
\* queries the owner, and through every sequence of listener attaches and
\* detaches registers no relay on the connection and posts no deferred
\* disconnect event.
C26_InvalidProxyDoesNoSetup ==
    (pc # "new" /\ ~isValid)
        => /\ lastError = checkIfValid(service, path, interface, isDynamic, isPeerConnection)
           /\ lastError # NoError
           /\ ~watcher /\ ~ownerQueried /\ currentOwner = ""
           /\ relays = {} /\ events = <<>>
           /\ relayOperation => last.sent = <<>>

C26_Witness ==
    /\ pc = "ready" /\ ~isValid /\ connected
    /\ last.op = "disconnectNotify" /\ last.in = <<"removed">>
    /\ hasListener("changed") /\ relays = {} /\ events = <<>>

\* The signals the processing of a deferred event looks at and finds without
\* a listener: the signal the event names, or for the wildcard event every
\* declared signal.
unlistened(signalId) ==
    IF signalId = Wildcard
    THEN { DeclaredSignals[i] : i \in { j \in 1..Len(DeclaredSignals) :
                                           ~hasListener(DeclaredSignals[j]) } }
    ELSE IF hasListener(signalId) THEN {} ELSE {signalId}

C27_ProcessingStep ==
    Len(events') < Len(events)
        => /\ last'.op = "finishDisconnectNotify" /\ last'.in = <<Head(events)>>
           /\ listeners' = listeners
           /\ { last'.sent[i].signal : i \in 1..Len(last'.sent) } = unlistened(Head(events))
           /\ Len(last'.sent) = Cardinality(unlistened(Head(events)))
           /\ \A i \in 1..Len(last'.sent) :
                 last'.sent[i] = [via |-> "disconnectRelay", service |-> service,
                                  path |-> path, interface |-> interface,
                                  signal |-> last'.sent[i].signal]
           /\ relays' = relays \ unlistened(Head(events))

\* C27: the processing of a deferred disconnect event deregisters the relay
\* only of signals without a local listener at that moment: for an event
\* naming a signal, one disconnectRelay() iff the signal has no listener,
\* and none, with the registration left in place, when a listener attached
\* again; for the wildcard event, one disconnectRelay() for each declared
\* signal without a listener and none for a signal with one.
C27_DeregistersOnlyUnlistened == [][C27_ProcessingStep]_vars

C27_Witness ==
    /\ last.op = "finishDisconnectNotify" /\ last.in = <<"changed">> /\ isValid
    /\ last.sent = <<>> /\ listeners = {<<"r1", "changed">>} /\ "changed" \in relays

\* A disconnectRelay() is among the calls the observed operation made.
deregistersInline ==
    \E i \in 1..Len(last.sent) : last.sent[i].via = "disconnectRelay"

C28_DetachStep ==
    /\ (listeners' # listeners /\ listeners' \subseteq listeners /\ isValid)
          => /\ last'.op = "disconnectNotify"
             /\ events' = Append(events, last'.in[1])
             /\ last'.in[1] # Wildcard
                   => \E r \in Receivers : listeners \ listeners' = {<<r, last'.in[1]>>}
             /\ last'.sent = <<>>
             /\ relays' = relays
    /\ ~(relays \subseteq relays')
          => (Len(events') < Len(events) /\ last'.op = "finishDisconnectNotify")
    /\ (relayOperation /\ deregistersInline)' => last'.op = "finishDisconnectNotify"

\* C28: a listener detach on a valid proxy deregisters nothing inline:
\* disconnectNotify() posts exactly one deferred event carrying the signal
\* and calls nothing on the connection; disconnectRelay() is called, and a
\* registration removed, only in the step that processes a posted event.
C28_DetachNeverDeregistersInline == [][C28_DetachStep]_vars

C28_Witness ==
    /\ pc = "ready" /\ isValid /\ last.op = "disconnectNotify" /\ last.in = <<Wildcard>>
    /\ last.sent = <<>> /\ events = <<Wildcard>> /\ listeners = {}
    /\ relays = {"changed", "removed"}

\* C29: QObject::destroyed is never relayed: through every sequence of
\* listener attaches and detaches no connectRelay() names it and it is never
\* registered on the connection, while every attach to another signal of a
\* valid proxy with a live connection calls connectRelay() once, with the
\* service, path and interface of the proxy and that signal.
C29_DestroyedIsNeverRelayed ==
    /\ destroyedSignal \notin relays
    /\ relayOperation
          => \A i \in 1..Len(last.sent) :
                last.sent[i].via = "connectRelay" => last.sent[i].signal # destroyedSignal
    /\ (last.op = "connectNotify" /\ last.in = <<destroyedSignal>>) => last.sent = <<>>
    /\ (last.op = "connectNotify" /\ last.in # <<destroyedSignal>> /\ isValid /\ connected)
          => /\ last.sent = << [via |-> "connectRelay", service |-> service, path |-> path,
                                interface |-> interface, signal |-> last.in[1]] >>
             /\ last.in[1] \in relays

C29_Witness ==
    /\ last.op = "connectNotify" /\ last.in = <<"removed">> /\ isValid /\ connected
    /\ Len(last.sent) = 1 /\ hasListener(destroyedSignal) /\ relays = {"removed"}

\* A valid proxy on a connected bus whose service the connection did not
\* report as watchable.
unwatchedBusProxy ==
    pc = "ready" /\ ~isPeerConnection /\ isValid /\ connected /\ ~watchable

\* C30: on a bus connection, a valid proxy whose service the connection
\* reports as not watchable never answers true to isValid(): owner tracking
\* is not started, no owner-change notification is delivered and
\* currentOwner stays empty, while a synchronous call that passes the
\* empty-name recheck is still sent to the connection.
C30_UnwatchedServiceIsNeverValid ==
    unwatchedBusProxy
        => /\ ~QDBusAbstractInterface_isValid
           /\ ~watcher /\ ~ownerQueried /\ currentOwner = ""
           /\ last.op # "serviceOwnerChanged"
           /\ last.op = "isValid" => ~last.ok
           /\ (last.op = "call" /\ ~emptyNameRefused)
                 => (~sentNothing /\ last.sent[1].via = "call" /\ last.ok)

C30_Witness ==
    /\ unwatchedBusProxy /\ service # "" /\ last.op = "call" /\ ~sentNothing
    /\ last.reply.type = "ReplyMessage" /\ lastError = NoError

\* One of the three dispatchers built a message for the method string it
\* was given (last.in[2]) and handed it to the connection.
dispatchedMethodCall ==
    last.op \in {"call", "asyncCall", "callWithCallback"} /\ ~sentNothing

\* C32: for the same method string, callWithArgumentList,
\* asyncCallWithArgumentList and callWithCallback address their message to
\* the same member: the method string cut before its first '.'.
C32_SameMemberForSameMethod ==
    dispatchedMethodCall => last.sent[1].member = bareMethod(last.in[2])

\* A call that had waited for its reply has just returned on the thread that
\* owns the proxy.
outerCallReturned ==
    outer.state = "returned" /\ outer.thread = "owner" /\ last.op = "call" /\ last.ok

\* C31: when a synchronous call on the owning thread lets the event loop run
\* and nested operations on the proxy complete before it returns, lastError
\* after the outer call returns is the error of the outer call's reply,
\* whatever the nested operations had stored.
C31_OuterReplyDecidesLastError ==
    outerCallReturned => lastError = QDBusErrorOf(last.reply)

C31_Witness ==
    /\ outerCallReturned /\ outer.mode = "BlockWithGui"
    /\ outer.before = NoError /\ last.before.type = "InvalidSignature"
    /\ last.reply.type = "ReplyMessage" /\ lastError = NoError
====
